---- MODULE Spec2Model ----
(***************************************************************************)
(* dev_server.py: a development file server.  start_server prints a       *)
(* banner, binds socketserver.TCPServer(("", PORT), MyHTTPRequestHandler), *)
(* opens the browser unless argv[1] is --no-browser, and serves forever.   *)
(* MyHTTPRequestHandler is http.server.SimpleHTTPRequestHandler with       *)
(* directory=DIRECTORY, an end_headers that adds two headers, and a        *)
(* log_message that colours lines by substring.  The inherited request     *)
(* handling (parse_request, send_head, translate_path, send_error, ...) is *)
(* modelled as CPython's http.server / socketserver / posixpath run it.    *)
(*                                                                         *)
(* Text is modelled as sequences of tokens.  A request path is a sequence  *)
(* of PathTokens: "/" and "." are the characters, "d" and "p" are name     *)
(* characters, "%2e" and "%2f" are percent-escapes (three characters each, *)
(* decoded by unquote).  A filesystem path is a sequence of names, a name  *)
(* is a sequence of tokens.                                                *)
(***************************************************************************)
EXTENDS Integers, Sequences, FiniteSets, TLC

\* Longest request path, in tokens.
MaxLen == 4
\* Requests answered in one run of the server.
MaxRequests == 2

\* Longest command line, in arguments after the program's name.
MaxArgs == 2

PORT == 8080

VARIABLES
    pc,          \* where the process is: "start", "bind", "browser", "serving",
                 \* "handling", "handled", "exited"
    argv,        \* sys.argv[1:]
    server,      \* "Stopped" | "Listening": the listening socket
    stdout,      \* the messages start_server has printed, in order
    browser,     \* the URLs webbrowser.open was called with, in order
    exitCode,    \* -1 while running, else the process's exit status
    oserror,     \* the OSError start_server caught: [during, platform, cause, errno]
    interrupted, \* "" or, once a KeyboardInterrupt was raised, the pc it was raised at
    events,      \* "banner", "bind", "browser", "accept" (the first), in order
    accepted,    \* connections the serve_forever loop has accepted
    answered,    \* requests for which a response status was sent or attempted
    errorReplies,\* of those, the ones answered through send_error
    logCount,    \* lines log_message has printed
    req,         \* the request being handled (a summary), or NoRequest
    resp,        \* its response, or NoResponse
    opened,      \* filesystem paths the handler passed to isdir/isfile/open/listdir
    lines        \* what log_message printed for it: [format, style, hasGET, has404]

vars == <<pc, argv, server, stdout, browser, exitCode, oserror,
          interrupted, events, accepted, answered, errorReplies, logCount, req, resp,
          opened, lines>>

----------------------------------------------------------------------------
(* Paths: posixpath and urllib.parse on token sequences *)

PathTokens == {"/", ".", "d", "p", "%2e", "%2f"}

Paths == UNION {[1..k -> PathTokens] : k \in 1..MaxLen}

\* urllib.parse.unquote: every percent-escape becomes the character it encodes.
unquote(path) ==
    [i \in 1..Len(path) |->
        CASE path[i] = "%2e" -> "."
          [] path[i] = "%2f" -> "/"
          [] OTHER -> path[i]]

RECURSIVE SplitLoop(_, _, _, _)
SplitLoop(s, i, done, cur) ==
    IF i > Len(s) THEN Append(done, cur)
    ELSE IF s[i] = "/" THEN SplitLoop(s, i + 1, Append(done, cur), <<>>)
    ELSE SplitLoop(s, i + 1, done, Append(cur, s[i]))

\* str.split('/'): the components between slashes, empty ones kept.
split(s) == SplitLoop(s, 1, <<>>, <<>>)

\* '/'.join(comps)
RECURSIVE join(_)
join(comps) ==
    IF comps = <<>> THEN <<>>
    ELSE IF Len(comps) = 1 THEN comps[1]
    ELSE comps[1] \o <<"/">> \o join(Tail(comps))

curdir == <<".">>
pardir == <<".", ".">>

StartsWith(s, pre) == Len(s) >= Len(pre) /\ SubSeq(s, 1, Len(pre)) = pre

RECURSIVE NormLoop(_, _, _, _)
NormLoop(comps, i, initial_slashes, new_comps) ==
    IF i > Len(comps) THEN new_comps
    ELSE LET comp == comps[i] IN
         IF comp = <<>> \/ comp = curdir
         THEN NormLoop(comps, i + 1, initial_slashes, new_comps)
         ELSE IF \/ comp # pardir
                 \/ (initial_slashes = 0 /\ new_comps = <<>>)
                 \/ (new_comps # <<>> /\ new_comps[Len(new_comps)] = pardir)
         THEN NormLoop(comps, i + 1, initial_slashes, Append(new_comps, comp))
         ELSE IF new_comps # <<>>
         THEN NormLoop(comps, i + 1, initial_slashes, SubSeq(new_comps, 1, Len(new_comps) - 1))
         ELSE NormLoop(comps, i + 1, initial_slashes, new_comps)

\* posixpath.normpath
normpath(path) ==
    IF path = <<>> THEN curdir
    ELSE LET initial_slashes ==
                 IF ~StartsWith(path, <<"/">>) THEN 0
                 ELSE IF StartsWith(path, <<"/", "/">>) /\ ~StartsWith(path, <<"/", "/", "/">>)
                 THEN 2 ELSE 1
             joined == join(NormLoop(split(path), 1, initial_slashes, <<>>))
             out == [i \in 1..initial_slashes |-> "/"] \o joined
         IN IF out = <<>> THEN curdir ELSE out

\* os.path.dirname(word) is non-empty exactly when the word holds a slash.
dirname_nonempty(word) == \E i \in 1..Len(word) : word[i] = "/"

----------------------------------------------------------------------------
(* The filesystem the server runs on *)

\* DIRECTORY = os.path.dirname(os.path.abspath(__file__)): here /s/r.
DIRECTORY == << <<"s">>, <<"r">> >>

\* Directories and regular files, as absolute paths.  Inside DIRECTORY:
\* index.html and the directory d (no index in it; nothing is named p).
\* Outside DIRECTORY: /s/p and /p.
Dirs == { <<>>, << <<"s">> >>, DIRECTORY, DIRECTORY \o << <<"d">> >> }
Files == { DIRECTORY \o << <<"index.html">> >>,
           << <<"s">>, <<"p">> >>,
           << <<"p">> >> }

\* The location path names, its "." and ".." names resolved as the
\* operating system resolves them.
Resolve(path) == NormLoop(path, 1, 1, <<>>)

isdir(path) == Resolve(path) \in Dirs
isfile(path) == Resolve(path) \in Files

\* Whether path names root or a location below it.
IsWithin(root, path) == StartsWith(Resolve(path), root)

\* TranslateLoop without the test that ignores "." and "..".
RECURSIVE TranslateLoop_keeps_pardir(_, _, _)
TranslateLoop_keeps_pardir(words, i, path) ==
    IF i > Len(words) THEN path
    ELSE TranslateLoop_keeps_pardir(words, i + 1, Append(path, words[i]))

RECURSIVE TranslateLoop(_, _, _)
TranslateLoop(words, i, path) ==
    IF i > Len(words) THEN path
    ELSE IF dirname_nonempty(words[i]) \/ words[i] \in {curdir, pardir}
    THEN TranslateLoop(words, i + 1, path)
    ELSE TranslateLoop(words, i + 1, Append(path, words[i]))

\* translate_path as a plain join: the decoded path appended to dir.
translate_path_joined(dir, path) ==
    [path |-> dir \o SelectSeq(split(unquote(path)), LAMBDA w : w # <<>>),
     slash |-> path # <<>> /\ path[Len(path)] = "/"]

\* SimpleHTTPRequestHandler.translate_path, with self.directory = dir: the
\* local path and whether it carries a trailing slash.
translate_path(dir, path) ==
    LET trailing_slash == path # <<>> /\ path[Len(path)] = "/"
        words == SelectSeq(split(normpath(unquote(path))), LAMBDA w : w # <<>>)
    IN [path |-> TranslateLoop(words, 1, dir), slash |-> trailing_slash]

----------------------------------------------------------------------------
(* The request handler: BaseHTTPRequestHandler / SimpleHTTPRequestHandler  *)
(* with MyHTTPRequestHandler's overrides.  A handler h is a record:        *)
(*   directory                  self.directory, as __init__ sets it        *)
(*   request_version, command   as parse_request sets them                 *)
(*   buffer   the _headers_buffer: <<name, value>> pairs not yet written   *)
(*   wire     what has been written to the socket before the body          *)
(*   status   the code given to send_response (0: none yet)                *)
(*   viaError whether send_error produced the response                     *)
(*   body     what follows the headers: [kind, path], kind "none",         *)
(*            "error_page", "listing" or "file" (path: the file sent)      *)
(*   lines    what log_message printed                                     *)
(*   opened   the filesystem paths given to isdir/isfile/open/listdir      *)

Commands == {"GET", "HEAD", "POST"}
\* The third word of the request line; "" when the line has two words.
Versions == {"HTTP/1.1", "FOO", ""}

GREEN == "\\033[92m"
RED == "\\033[91m"
PLAIN == ""

REQUEST_FORMAT == "\"%s\" %s %s"
ERROR_FORMAT == "code %d, message %s"

CACHE_CONTROL == <<"Cache-Control", "no-cache, no-store, must-revalidate">>
ALLOW_ORIGIN == <<"Access-Control-Allow-Origin", "*">>

Body(kind, path) == [kind |-> kind, path |-> path]

\* SimpleHTTPRequestHandler.__init__(directory=dir)
NewHandler(dir) ==
    [directory |-> dir, request_version |-> "HTTP/0.9", command |-> "", buffer |-> <<>>,
     wire |-> <<>>, status |-> 0, viaError |-> FALSE, body |-> Body("none", <<>>),
     lines |-> <<>>, opened |-> {}]

\* str(code): the three digits, one token.
CodeText(code) ==
    CASE code = 200 -> "200" [] code = 301 -> "301" [] code = 304 -> "304"
      [] code = 400 -> "400" [] code = 404 -> "404" [] code = 501 -> "501"

\* format % args for the two formats the handler logs with; every argument
\* is a token sequence.
Format(format, args) ==
    IF format = REQUEST_FORMAT
    THEN <<"\"">> \o args[1] \o <<"\"", " ">> \o args[2] \o <<" ">> \o args[3]
    ELSE <<"code ">> \o args[1] \o <<", message ">> \o args[2]

\* `sub in text`.  "GET" and "404" occur in a logged text only as whole
\* tokens: no other token holds them and none arises across two tokens.
Contains(text, sub) == \E i \in 1..Len(text) : text[i] = sub

\* log_message with its two tests in the other order.
LogStyle_404_first(text) ==
    IF Contains(text, "404") THEN RED
    ELSE IF Contains(text, "GET") THEN GREEN
    ELSE PLAIN

\* MyHTTPRequestHandler.log_message: the colour of the printed line.
LogStyle(text) ==
    IF Contains(text, "GET") THEN GREEN
    ELSE IF Contains(text, "404") THEN RED
    ELSE PLAIN

log_message(h, format, args) ==
    LET text == Format(format, args) IN
    [h EXCEPT !.lines = Append(@, [format |-> format,
                                    style |-> LogStyle(text),
                                    hasGET |-> Contains(text, "GET"),
                                    has404 |-> Contains(text, "404")])]

\* BaseHTTPRequestHandler.send_header
send_header(h, keyword, value) ==
    IF h.request_version # "HTTP/0.9"
    THEN [h EXCEPT !.buffer = Append(@, <<keyword, value>>)]
    ELSE h

\* BaseHTTPRequestHandler.end_headers (with flush_headers)
base_end_headers(h) ==
    IF h.request_version # "HTTP/0.9"
    THEN [h EXCEPT !.wire = @ \o h.buffer \o << <<"", "">> >>, !.buffer = <<>>]
    ELSE h

\* end_headers as inherited, without the override.
end_headers_inherited(h) == base_end_headers(h)

\* MyHTTPRequestHandler.end_headers
end_headers(h) ==
    base_end_headers(
        send_header(send_header(h, CACHE_CONTROL[1], CACHE_CONTROL[2]),
                    ALLOW_ORIGIN[1], ALLOW_ORIGIN[2]))

\* send_response without its call of log_request.
send_response_unlogged(h, requestline, code) ==
    send_header(send_header(send_header([h EXCEPT !.status = code],
        "status", CodeText(code)), "Server", "SimpleHTTP"), "Date", "now")

\* BaseHTTPRequestHandler.send_response: log_request, then the status line
\* and the Server and Date headers into the buffer.
send_response(h, requestline, code) ==
    LET logged == log_message(h, REQUEST_FORMAT,
                              <<requestline, <<CodeText(code)>>, <<"-">> >>)
        status == send_header([logged EXCEPT !.status = code],
                              "status", CodeText(code))
    IN send_header(send_header(status, "Server", "SimpleHTTP"), "Date", "now")

\* BaseHTTPRequestHandler.send_error
send_error(h, requestline, code, message) ==
    LET logged == log_message(h, ERROR_FORMAT, << <<CodeText(code)>>, message>>)
        h1 == send_response([logged EXCEPT !.viaError = TRUE], requestline, code)
        h2 == send_header(h1, "Connection", "close")
        h3 == send_header(send_header(h2, "Content-Type", "text/html"),
                          "Content-Length", "n")
        h4 == end_headers(h3)
    IN IF h.command # "HEAD" THEN [h4 EXCEPT !.body = Body("error_page", <<>>)] ELSE h4

Quoted(word) == <<"'", word, "'">>

index_html == <<"index.html">>
index_htm == <<"index.htm">>

\* os.listdir(path), as full names.
Children(path) ==
    {q \in Dirs \cup Files : Len(q) = Len(path) + 1 /\ StartsWith(q, path)}

\* SimpleHTTPRequestHandler.list_directory
list_directory(h, requestline, path) ==
    LET h1 == [h EXCEPT !.opened = @ \cup {path} \cup Children(path)]
        h2 == send_response(h1, requestline, 200)
        h3 == send_header(send_header(h2, "Content-type", "text/html"),
                          "Content-Length", "n")
    IN [end_headers(h3) EXCEPT !.body = Body("listing", <<>>)]

\* SimpleHTTPRequestHandler.send_head, from the file lookup on: path is the
\* local path, slash whether it ends with a slash.
send_file(h, requestline, path, slash, ims) ==
    IF slash THEN send_error(h, requestline, 404, <<"File not found">>)
    ELSE LET h1 == [h EXCEPT !.opened = @ \cup {path}] IN
         IF ~isfile(path) THEN send_error(h1, requestline, 404, <<"File not found">>)
         ELSE IF ims THEN end_headers(send_response(h1, requestline, 304))
         ELSE LET h2 == send_response(h1, requestline, 200)
                  h3 == send_header(send_header(send_header(h2,
                            "Content-type", "guess_type"),
                            "Content-Length", "n"), "Last-Modified", "mtime")
              IN [end_headers(h3) EXCEPT !.body = Body("file", path)]

\* SimpleHTTPRequestHandler.send_head.  selfpath is the request path as
\* parse_request left it; ims: the request carries an If-Modified-Since that
\* is not older than the file (and no If-None-Match).
send_head(h, requestline, selfpath, ims) ==
    LET t == translate_path(h.directory, selfpath)
        h1 == [h EXCEPT !.opened = @ \cup {t.path}]
    IN IF isdir(t.path)
       THEN IF selfpath[Len(selfpath)] # "/"
            THEN LET h2 == send_response(h1, requestline, 301)
                     h3 == send_header(send_header(h2, "Location", "path/"),
                                       "Content-Length", "0")
                 IN end_headers(h3)
            ELSE LET html == Append(t.path, index_html)
                     htm == Append(t.path, index_htm)
                 IN IF isfile(html)
                    THEN send_file([h1 EXCEPT !.opened = @ \cup {html}],
                                   requestline, html, FALSE, ims)
                    ELSE IF isfile(htm)
                    THEN send_file([h1 EXCEPT !.opened = @ \cup {html, htm}],
                                   requestline, htm, FALSE, ims)
                    ELSE list_directory([h1 EXCEPT !.opened = @ \cup {html, htm}],
                                        requestline, t.path)
       ELSE send_file(h1, requestline, t.path, t.slash, ims)

\* MyHTTPRequestHandler.__init__: directory=DIRECTORY
MyHTTPRequestHandler == NewHandler(DIRECTORY)

\* do_GET sends the body send_head opened; do_HEAD closes it unsent.
do_GET(h, requestline, selfpath, ims) ==
    send_head(h, requestline, selfpath, ims)

do_HEAD(h, requestline, selfpath, ims) ==
    [send_head(h, requestline, selfpath, ims) EXCEPT !.body = Body("none", <<>>)]

\* parse_request's rewrite of a path that starts with "//": one slash is kept.
RECURSIVE lstrip_slash(_)
lstrip_slash(path) ==
    IF path # <<>> /\ path[1] = "/" THEN lstrip_slash(Tail(path)) ELSE path

reduce_slashes(path) ==
    IF StartsWith(path, <<"/", "/">>) THEN <<"/">> \o lstrip_slash(path) ELSE path

\* BaseHTTPRequestHandler.handle_one_request on the request line
\* "command path [version]": parse_request, then the do_ method.
handle_one_request(h, command, path, version, ims) ==
    LET requestline == <<command, " ">> \o path
                       \o (IF version = "" THEN <<>> ELSE <<" ", version>>)
    IN IF version # "" /\ version # "HTTP/1.1"
       THEN send_error(h, requestline, 400,
                       <<"Bad request version (">> \o Quoted(version) \o <<")">>)
       ELSE LET hv == IF version = "" THEN h
                      ELSE [h EXCEPT !.request_version = version]
            IN IF version = "" /\ command # "GET"
               THEN send_error(hv, requestline, 400,
                        <<"Bad HTTP/0.9 request type (">> \o Quoted(command) \o <<")">>)
               ELSE LET hc == [hv EXCEPT !.command = command]
                        selfpath == reduce_slashes(path)
                    IN CASE command = "GET" -> do_GET(hc, requestline, selfpath, ims)
                         [] command = "HEAD" -> do_HEAD(hc, requestline, selfpath, ims)
                         [] OTHER -> send_error(hc, requestline, 501,
                                <<"Unsupported method (">> \o Quoted(command) \o <<")">>)

----------------------------------------------------------------------------
(* The process: start_server *)

Args == {"--no-browser", "x"}
ArgvSet == UNION {[1..k -> Args] : k \in 0..MaxArgs}

Platforms == {"darwin", "linux", "win32"}
\* Why the OSError was raised: the port is taken, binding is not permitted,
\* or the selector fails on the listening socket.
Causes == {"in_use", "denied", "bad_descriptor"}
BindCauses == {"in_use", "denied"}

\* e.errno of the OSError the platform raises.
Errno(platform, cause) ==
    CASE cause = "in_use" /\ platform = "darwin" -> 48
      [] cause = "in_use" /\ platform = "linux" -> 98
      [] cause = "in_use" /\ platform = "win32" -> 10048
      [] cause = "denied" -> 13
      [] OTHER -> 9

NoError == [during |-> "", platform |-> "", cause |-> "", errno |-> 0]
NoRequest == [command |-> "", version |-> "", escapes |-> FALSE,
              encoded |-> FALSE]
NoResponse == [directory |-> <<>>, status |-> 0, wire |-> <<>>, body |-> Body("none", <<>>),
               viaError |-> FALSE, raised |-> FALSE]

BrowserUrl == <<"http://localhost:", PORT, "/index.html">>

Init ==
    /\ pc = "start"
    /\ argv \in ArgvSet
    /\ server = "Stopped"
    /\ stdout = <<>>
    /\ browser = <<>>
    /\ exitCode = -1
    /\ oserror = NoError
    /\ interrupted = ""
    /\ events = <<>>
    /\ accepted = 0
    /\ answered = 0
    /\ errorReplies = 0
    /\ logCount = 0
    /\ req = NoRequest
    /\ resp = NoResponse
    /\ opened = {}
    /\ lines = <<>>

\* Lines 36-54: the banner, printed before the try block.
PrintBanner ==
    /\ pc = "start"
    /\ pc' = "bind"
    /\ stdout' = Append(stdout, "banner")
    /\ events' = Append(events, "banner")
    /\ UNCHANGED <<argv, server, browser, exitCode, oserror,
                   interrupted, accepted, answered, errorReplies, logCount,
                   req, resp, opened, lines>>

\* Line 57, TCPServer(("", PORT), MyHTTPRequestHandler) binds and listens.
BindOk ==
    /\ pc = "bind"
    /\ pc' = "browser"
    /\ server' = "Listening"
    /\ events' = Append(events, "bind")
    /\ UNCHANGED <<argv, stdout, browser, exitCode, oserror,
                   interrupted, accepted, answered, errorReplies, logCount,
                   req, resp, opened, lines>>

\* Lines 71-77: what `except OSError as e` prints.
OSErrorMessage(errno) == IF errno = 48 THEN "port_in_use" ELSE "raw_error"

\* Lines 71-77: the handler of an OSError raised in the try block.
ExceptOSError(during, platform, cause) ==
    /\ pc' = "exited"
    /\ server' = "Stopped"
    /\ oserror' = [during |-> during, platform |-> platform, cause |-> cause,
                   errno |-> Errno(platform, cause)]
    /\ stdout' = Append(stdout, OSErrorMessage(Errno(platform, cause)))
    /\ exitCode' = 1
    /\ UNCHANGED <<argv, browser, interrupted, events, accepted,
                   answered, errorReplies, logCount, req, resp, opened, lines>>

\* The browser opened before line 57, so also when the bind then fails.
BindFail_after_browser ==
    /\ pc = "bind"
    /\ pc' = "exited"
    /\ browser' = Append(browser, BrowserUrl)
    /\ events' = Append(events, "browser")
    /\ stdout' = Append(stdout, "raw_error")
    /\ exitCode' = 1
    /\ UNCHANGED <<argv, server, oserror, interrupted, accepted, answered,
                   errorReplies, logCount, req, resp, opened, lines>>

\* Line 57 raises OSError: the port is taken, or binding is not permitted.
BindFail ==
    /\ pc = "bind"
    /\ \E platform \in Platforms, cause \in BindCauses :
           ExceptOSError("bind", platform, cause)

\* Lines 59-66: the browser, then the two "serving" lines.
AutoOpenBrowser ==
    /\ pc = "browser"
    /\ pc' = "serving"
    /\ IF Len(argv) > 0 /\ argv[1] = "--no-browser"
       THEN /\ stdout' = stdout \o <<"skip_browser", "serving_at", "watching">>
            /\ UNCHANGED <<browser, events>>
       ELSE /\ browser' = Append(browser, BrowserUrl)
            /\ events' = Append(events, "browser")
            /\ stdout' = stdout \o <<"browser_opened", "serving_at", "watching">>
    /\ UNCHANGED <<argv, server, exitCode, oserror, interrupted,
                   accepted, answered, errorReplies, logCount, req, resp,
                   opened, lines>>

\* serve_forever: the selector reports the socket readable and
\* _handle_request_noblock accepts the connection.
Accept ==
    /\ pc = "serving"
    /\ answered < MaxRequests
    /\ pc' = "handling"
    /\ accepted' = accepted + 1
    /\ events' = IF accepted = 0 THEN Append(events, "accept") ELSE events
    /\ UNCHANGED <<argv, server, stdout, browser, exitCode, oserror,
                   interrupted, answered, errorReplies, logCount, req, resp,
                   opened, lines>>

\* The request path, percent-decoded, joined to dir and normalized: the
\* location a plain join would name.
NaiveJoin(dir, path) == dir \o split(unquote(path))

EscapesRoot(dir, path) == ~IsWithin(dir, NaiveJoin(dir, path))

\* Whether writing the response raises: the client is gone and there is
\* something to write.
WriteRaises(h, gone) == gone /\ (h.wire # <<>> \/ h.body.kind # "none")

\* finish_request: a handler is made for the connection and handles the
\* request line "command path [version]".  What is kept of the exchange:
\* req, a summary of the request; resp, the response; opened; lines.
Exchange(command, path, version, ims, gone) ==
    LET h == handle_one_request(MyHTTPRequestHandler, command, path, version, ims) IN
    [req |-> [command |-> command, version |-> version,
              escapes |-> EscapesRoot(DIRECTORY, path),
              encoded |-> \E i \in 1..Len(path) : path[i] \in {"%2e", "%2f"}],
     resp |-> [directory |-> h.directory, status |-> h.status, wire |-> h.wire,
               body |-> h.body, viaError |-> h.viaError,
               raised |-> WriteRaises(h, gone)],
     opened |-> h.opened,
     lines |-> h.lines]

\* Every exchange a request within the bounds can lead to.
Exchanges ==
    {Exchange(command, path, version, ims, gone) :
        command \in Commands, path \in Paths, version \in Versions,
        ims \in BOOLEAN, gone \in BOOLEAN}

\* No handle_error: what the handler raises leaves serve_forever.
Propagates_uncaught(raised) == raised

\* Whether an Exception the handler raised leaves serve_forever:
\* _handle_request_noblock catches it (handle_error) and goes on.
Propagates(raised) == FALSE

\* process_request: finish_request runs the handler on the request, which
\* is logged and answered.  An Exception that left serve_forever would be an
\* OSError (BrokenPipeError, ConnectionResetError) for line 71 to catch.
HandleRequest ==
    /\ pc = "handling"
    /\ \E x \in Exchanges :
           /\ logCount' = logCount + Len(x.lines)
           /\ answered' = answered + 1
           /\ errorReplies' = errorReplies + (IF x.resp.viaError THEN 1 ELSE 0)
           /\ IF Propagates(x.resp.raised)
              THEN /\ pc' = "exited"
                   /\ server' = "Stopped"
                   /\ stdout' = Append(stdout, "raw_error")
                   /\ exitCode' = 1
                   /\ UNCHANGED <<req, resp, opened, lines>>
              ELSE /\ pc' = "handled"
                   /\ req' = x.req
                   /\ resp' = x.resp
                   /\ opened' = x.opened
                   /\ lines' = x.lines
                   /\ UNCHANGED <<server, stdout, exitCode>>
    /\ UNCHANGED <<argv, browser, oserror, interrupted, events, accepted>>

\* shutdown_request: the connection is closed, the handler is dropped and
\* serve_forever waits for the next connection.
ShutdownRequest ==
    /\ pc = "handled"
    /\ pc' = "serving"
    /\ req' = NoRequest
    /\ resp' = NoResponse
    /\ opened' = {}
    /\ lines' = <<>>
    /\ UNCHANGED <<argv, server, stdout, browser, exitCode, oserror,
                   interrupted, events, accepted, answered, errorReplies, logCount>>

\* `except KeyboardInterrupt` ending in sys.exit(1).
ExceptKeyboardInterrupt_exit1 == [message |-> "server_stopped", code |-> 1]

\* Lines 68-70: what `except KeyboardInterrupt` prints and exits with.
ExceptKeyboardInterrupt == [message |-> "server_stopped", code |-> 0]

\* Lines 68-70: Ctrl-C anywhere in the try block, a request in progress or
\* not (KeyboardInterrupt is no Exception: handle_error does not catch it).
\* The with block closes the socket; the exchange ends with the process.
KeyboardInterrupt ==
    /\ pc \in {"bind", "browser", "serving", "handling", "handled"}
    /\ pc' = "exited"
    /\ interrupted' = pc
    /\ server' = "Stopped"
    /\ stdout' = Append(stdout, ExceptKeyboardInterrupt.message)
    /\ exitCode' = ExceptKeyboardInterrupt.code
    /\ req' = NoRequest
    /\ resp' = NoResponse
    /\ opened' = {}
    /\ lines' = <<>>
    /\ UNCHANGED <<argv, browser, oserror, events, accepted, answered,
                   errorReplies, logCount>>

\* Ctrl-C while the banner is printed, outside the try block: the
\* interpreter ends the process on the uncaught KeyboardInterrupt.
InterruptOutsideTry ==
    /\ pc = "start"
    /\ pc' = "exited"
    /\ interrupted' = pc
    /\ exitCode' \in {1, 130}
    /\ UNCHANGED <<argv, server, stdout, browser, oserror, events,
                   accepted, answered, errorReplies, logCount, req, resp,
                   opened, lines>>

\* serve_forever raises OSError (the selector fails on the listening socket).
FatalIOError ==
    /\ pc = "serving"
    /\ \E platform \in Platforms : ExceptOSError("serve", platform, "bad_descriptor")

Next ==
    \/ PrintBanner
    \/ BindOk
    \/ BindFail
    \/ AutoOpenBrowser
    \/ Accept
    \/ HandleRequest
    \/ ShutdownRequest
    \/ KeyboardInterrupt
    \/ InterruptOutsideTry
    \/ FatalIOError

Spec == Init /\ [][Next]_vars

----------------------------------------------------------------------------
(* Properties *)

HasHeader(wire, header) == \E i \in 1..Len(wire) : wire[i] = header
DevHeaders(wire) == HasHeader(wire, CACHE_CONTROL) /\ HasHeader(wire, ALLOW_ORIGIN)
Exists(path) == path \in Dirs \cup Files
Printed(message) == \E i \in 1..Len(stdout) : stdout[i] = message
Happened(event) == \E i \in 1..Len(events) : events[i] = event
RequestLines == {i \in 1..Len(lines) : lines[i].format = REQUEST_FORMAT}
ErrorLines == {i \in 1..Len(lines) : lines[i].format = ERROR_FORMAT}

C2_ReadsOnlyUnderRoot ==
    /\ resp # NoResponse => resp.directory = DIRECTORY
    /\ \A q \in opened : IsWithin(DIRECTORY, q)
    /\ resp.body.kind = "file" => IsWithin(DIRECTORY, resp.body.path)

\* A second request, with an escaping path, that was sent a file.
C2_Witness ==
    /\ pc = "handled" /\ answered = 2 /\ req.escapes
    /\ resp.body.kind = "file" /\ opened # {}

\* C3, as stated: every response carries both added headers.
C3_EveryResponseHasDevHeaders ==
    pc = "handled" => DevHeaders(resp.wire)

\* C3, amended: every response to a request line with a valid HTTP/1.x
\* version carries both added headers, whatever its outcome; the response to
\* a request line without a version (HTTP/0.9) or with an invalid one is sent
\* without status line and without any header.
C3_DevHeadersUnlessHTTP09 ==
    pc = "handled" =>
        /\ req.version = "HTTP/1.1" => DevHeaders(resp.wire)
        /\ req.version # "HTTP/1.1" => resp.wire = <<>>

\* A 404 to an HTTP/1.1 request, with both headers.
C3_Witness ==
    /\ pc = "handled" /\ req.version = "HTTP/1.1" /\ resp.status = 404
    /\ DevHeaders(resp.wire)

\* C4: the socket is Stopped or Listening; it is Listening only after a
\* successful bind; having bound, it is Stopped only after a KeyboardInterrupt
\* or an OSError out of serve_forever; and whatever the requests were (404,
\* traversal, malformed, the handler raising), without those two the server
\* is Listening and the process runs.
C4_RequestsNeverStopServer ==
    /\ server \in {"Stopped", "Listening"}
    /\ server = "Listening" => Happened("bind")
    /\ (Happened("bind") /\ server = "Stopped")
           => (interrupted # "" \/ oserror.during = "serve")
    /\ (answered > 0 /\ interrupted = "" /\ oserror = NoError)
           => (server = "Listening" /\ exitCode = -1 /\ pc \in {"serving", "handling", "handled"})

\* Two requests answered, the second one's handler raised on a 404, and the
\* server listens.
C4_Witness ==
    /\ pc = "handled" /\ answered = 2 /\ resp.raised /\ resp.status = 404
    /\ server = "Listening"

\* C5, as stated: a bind that fails because the port is taken prints the
\* diagnostic naming the port, not the raw error, and exits non-zero without
\* having listened.
C5_PortInUseDiagnostic ==
    (oserror.during = "bind" /\ oserror.cause = "in_use") =>
        /\ stdout[Len(stdout)] = "port_in_use"
        /\ exitCode > 0
        /\ ~Happened("bind")

\* C6, as stated: once the browser step is over, a command line that holds
\* --no-browser has launched no browser and printed the skipping message, and
\* an empty command line has launched the browser at the index page.
C6_FlagAnywhereSuppressesBrowser ==
    (Happened("bind") /\ pc # "browser" /\ interrupted # "browser") =>
        /\ (\E i \in 1..Len(argv) : argv[i] = "--no-browser")
               => (browser = <<>> /\ Printed("skip_browser"))
        /\ argv = <<>> => browser = <<BrowserUrl>>

\* C7: every log line is green if its text holds "GET", else red if it
\* holds "404", else unstyled; and the request line of a GET answered 404
\* holds both and is green.
C7_FirstMatchWins ==
    /\ \A i \in 1..Len(lines) :
           lines[i].style = IF lines[i].hasGET THEN GREEN
                            ELSE IF lines[i].has404 THEN RED
                            ELSE PLAIN
    /\ (pc = "handled" /\ req.command = "GET" /\ resp.status = 404) =>
           \A i \in RequestLines :
               lines[i].hasGET /\ lines[i].has404 /\ lines[i].style = GREEN

\* A GET answered 404: its request line green, its error line red.
C7_Witness ==
    /\ pc = "handled" /\ req.command = "GET" /\ resp.status = 404
    /\ \E i \in RequestLines : lines[i].style = GREEN
    /\ \E i \in ErrorLines : lines[i].style = RED

\* C8, as stated: n answered requests have written n log lines.
C8_OneLinePerRequest ==
    logCount = answered

\* C8, amended: every answered request writes one request line, and a
\* request answered through send_error (400, 404, 501) writes one error line
\* before it: n answered requests of which k were error replies have written
\* n + k lines.
C8_OneLinePlusOnePerError ==
    /\ logCount = answered + errorReplies
    /\ pc = "handled" =>
           /\ Cardinality(RequestLines) = 1
           /\ Cardinality(ErrorLines) = IF resp.viaError THEN 1 ELSE 0
           /\ Len(lines) = Cardinality(RequestLines) + Cardinality(ErrorLines)
           /\ lines[Len(lines)].format = REQUEST_FORMAT
           /\ resp.viaError <=> resp.status \in {400, 404, 501}

\* Two requests answered, one of them an error reply: three lines.
C8_Witness ==
    /\ answered = 2 /\ errorReplies = 1 /\ logCount = 3
    /\ pc = "handled" /\ resp.status = 404

\* C9: a KeyboardInterrupt raised while the server listens (idle or with a
\* request in progress) ends the process with the shutdown message printed
\* last and exit code 0; only a KeyboardInterrupt exits 0; an OSError exits
\* non-zero.
C9_InterruptExitsZero ==
    /\ interrupted \in {"browser", "serving", "handling", "handled"} =>
           /\ pc = "exited" /\ exitCode = 0 /\ server = "Stopped"
           /\ stdout[Len(stdout)] = "server_stopped"
    /\ exitCode = 0 => (interrupted # "" /\ Printed("server_stopped"))
    /\ oserror # NoError => (pc = "exited" /\ exitCode > 0)

\* Interrupted with a request in progress, after one was answered.
C9_Witness ==
    /\ interrupted = "handling" /\ answered = 1 /\ exitCode = 0

\* C10: the banner comes first; the browser is launched at most once, after
\* the bind and before the first accept; a failed bind launches none.
C10_StartupOrder ==
    /\ events # <<>> => events[1] = "banner"
    /\ pc # "start" /\ interrupted # "start" => Printed("banner")
    /\ Len(browser) <= 1
    /\ Len(browser) = Cardinality({i \in 1..Len(events) : events[i] = "browser"})
    /\ \A i \in 1..Len(events) : events[i] = "browser" =>
           /\ \E j \in 1..(i - 1) : events[j] = "bind"
           /\ \A j \in 1..(i - 1) : events[j] # "accept"
    /\ \A i \in 1..Len(events) : events[i] = "accept" =>
           \E j \in 1..(i - 1) : events[j] = "bind"
    /\ ~Happened("bind") => browser = <<>>

\* Banner, bind, browser, first accept, in this order.
C10_Witness ==
    events = <<"banner", "bind", "browser", "accept">>

====
